---------------------------- MODULE Spec2Model ----------------------------
(***************************************************************************)
(* Model of src/bot.py: a Telegram group moderation bot built on           *)
(* python-telegram-bot (Application / MessageHandler / JobQueue).          *)
(*                                                                         *)
(* State: the three module-level stores (user_warnings, user_invites,      *)
(* restricted_users), bot_data['user_message_times'], the job queue, the   *)
(* clock, and the handler coroutine currently in flight (cur).  A handler  *)
(* runs atomically from one `await` of a chat-client call to the next; the *)
(* job queue's callbacks run on the same event loop and may run while a    *)
(* handler is suspended in an await.  A chat-client call either returns or *)
(* raises; check_message, check_forward, welcome_new_member,               *)
(* track_new_members, spam_check, start and stats have no try/except, so a *)
(* raising call ends the handler at that line.                             *)
(*                                                                         *)
(* Spec          the program as main() wires it: every handler is added to *)
(*               the default handler group, and the Application runs, per  *)
(*               group, only the first handler whose filter accepts the    *)
(*               update.  Messages, commands and join events.              *)
(* SpecJoins     the same wiring in a chat where only join events arrive.  *)
(* FairSpecJoins SpecJoins with weak fairness on the clock, the job queue  *)
(*               and the resumption of awaited calls.                      *)
(* SpecHandlers  welcome_new_member and track_new_members each invoked on  *)
(*               the join events its filter accepts (the functions taken   *)
(*               one by one, without main()'s first-match dispatch).       *)
(* SpecSpam      spam_check invoked on text messages, likewise.            *)
(* SpecQueue     main()'s wiring with the update queue made explicit:      *)
(*               blacklist-violating messages arrive while a handler is    *)
(*               suspended and wait on the queue for their turn.           *)
(***************************************************************************)
EXTENDS Integers, Sequences, FiniteSets, TLC

\* ------------------------------------------------------------------ bounds
MaxJoins == 1          \* join events accepted while messages are sent (Spec)
MaxQuietJoins == 3     \* join events accepted in a chat without messages
MaxBurst == 6          \* spam_check calls counted per user and instant
MaxViolations == 3     \* blacklist violations counted per user
MaxInvites == 6        \* invites counted per inviter
MaxQueued == 2         \* updates waiting on the update queue

\* ---------------------------------------------------------- program constants
MUTE_THRESHOLD == 3        \* user_warnings[user_id] >= 3
INVITE_THRESHOLD == 5      \* user_invites[inviter_id] >= 5
WELCOME_DELETE_DELAY == 20 \* run_once(delete_message, 20, ...)
AUTO_UNLOCK_DELAY == 3600  \* run_once(auto_unlock_user, 3600, ...)
SPAM_WINDOW == 10          \* (current_time - t).seconds < 10
SPAM_LIMIT == 5            \* len(...) > 5
SECONDS_PER_DAY == 86400   \* timedelta.seconds is the remainder within a day

\* ------------------------------------------------------------------- users
Humans == {1, 2, 3}
Bots == {4}
Users == Humans \cup Bots
Senders == {1, 2}      \* the users that send updates

\* member.is_bot
is_bot(u) == u \in Bots

\* ---------------------------------------------------- text, as code points
\* A text is a sequence of characters; a character outside ASCII is written
\* as its code point.
BLACKLIST_WORDS ==
    << <<"U+0DB4", "U+0DDC", "U+0DA9", "U+0DD2">>,
       <<"U+0D9A", "U+0DCF", "U+0DB8", "U+0DD4", "U+0D9A">>,
       <<"U+0DBD", "U+0DD2", "U+0D82", "U+0D9C", "U+0DD2", "U+0D9A">>,
       <<"U+0D85", "U+0DC3", "U+0DB7", "U+0DCA", "U+200D", "U+0DBA">>,
       <<"s", "e", "x">>,
       <<"p", "o", "r", "n">>,
       <<"x", "x", "x">>,
       <<"a", "d", "u", "l", "t">>,
       <<"n", "u", "d", "e">> >>

ALLOWED_FIRST_MESSAGES ==
    << <<"h", "i">>,
       <<"h", "e", "l", "l", "o">>,
       <<"U+0DC4", "U+0DCF", "U+0DBA", "U+0DD2">>,
       <<"U+0DC4", "U+0DBD", "U+0DDD">>,
       <<"h", "e", "y">> >>

LINK_MARKERS ==
    << <<"h", "t", "t", "p", ":", "/", "/">>,
       <<"h", "t", "t", "p", "s", ":", "/", "/">>,
       <<"t", ".", "m", "e", "/">> >>

UpperAZ == <<"A", "B", "C", "D", "E", "F", "G", "H", "I", "J", "K", "L", "M",
             "N", "O", "P", "Q", "R", "S", "T", "U", "V", "W", "X", "Y", "Z">>
LowerAZ == <<"a", "b", "c", "d", "e", "f", "g", "h", "i", "j", "k", "l", "m",
             "n", "o", "p", "q", "r", "s", "t", "u", "v", "w", "x", "y", "z">>
Whitespace == {" ", "\t", "\n", "\r"}

LowerChar(c) ==
    IF \E k \in 1..Len(UpperAZ) : UpperAZ[k] = c
    THEN LowerAZ[CHOOSE k \in 1..Len(UpperAZ) : UpperAZ[k] = c]
    ELSE c

\* str.lower()
Lower(s) == [k \in 1..Len(s) |-> LowerChar(s[k])]

\* str.strip()
Strip(s) ==
    LET keep == {k \in 1..Len(s) : s[k] \notin Whitespace}
    IN  IF keep = {} THEN <<>>
        ELSE LET lo == CHOOSE k \in keep : \A m \in keep : k <= m
                 hi == CHOOSE k \in keep : \A m \in keep : k >= m
             IN  SubSeq(s, lo, hi)

\* `sub in s` on strings
Contains(sub, s) ==
    \E k \in 1..(Len(s) - Len(sub) + 1) : SubSeq(s, k, k + Len(sub) - 1) = sub

\* `x in list`
InList(x, list) == \E k \in 1..Len(list) : list[k] = x

\* A variant that accepts any text containing an allowed greeting.
IsAllowedFirstMessageSubstring(message_text) ==
    \E k \in 1..Len(ALLOWED_FIRST_MESSAGES) :
        Contains(ALLOWED_FIRST_MESSAGES[k], message_text)

\* message_text.strip() not in ALLOWED_FIRST_MESSAGES     (negated)
IsAllowedFirstMessage(message_text) ==
    InList(Strip(message_text), ALLOWED_FIRST_MESSAGES)

\* for word in BLACKLIST_WORDS: if word in message_text
HasBlacklistWord(message_text) ==
    \E k \in 1..Len(BLACKLIST_WORDS) : Contains(BLACKLIST_WORDS[k], message_text)

\* 'http://' in message_text or 'https://' in message_text or 't.me/' in message_text
HasLink(message_text) ==
    \E k \in 1..Len(LINK_MARKERS) : Contains(LINK_MARKERS[k], message_text)

\* ------------------------------------------------------------ input samples
NoText == <<>>
T_HiPadded  == <<" ", "H", "i", " ">>
T_hiAll     == <<"h", "i", " ", "a", "l", "l">>
T_SeXy      == <<"S", "e", "X", "y">>
T_link      == <<"T", ".", "M", "E", "/", "a">>
T_xxxLink   == <<"x", "x", "x", " ", "h", "t", "t", "p", ":", "/", "/", "a">>
T_cmdStats  == <<"/", "s", "t", "a", "t", "s">>

Texts == {T_HiPadded, T_hiAll, T_SeXy, T_link, T_xxxLink, T_cmdStats}

\* A message without text (a photo, a sticker) is drawn only as a forward:
\* no handler of main() accepts it otherwise.
MessageUpdates ==
    [kind : {"message"}, from_user : Senders, text : Texts,
     forwarded : BOOLEAN, new_chat_members : {<<>>}]
    \cup [kind : {"message"}, from_user : Senders, text : {NoText},
          forwarded : {TRUE}, new_chat_members : {<<>>}]

\* A join service message: from_user is the member who joined by a link, or
\* the member who added the others.
Join(from_user, members) ==
    [kind |-> "join", from_user |-> from_user, text |-> NoText,
     forwarded |-> FALSE, new_chat_members |-> members]
JoinedByLink == Join(1, <<1>>)
AddedWithBot == Join(2, <<4, 1>>)
AddsTwo      == Join(1, <<2, 3>>)
FewJoinUpdates == {JoinedByLink, AddedWithBot}
JoinUpdates == {JoinedByLink, AddedWithBot, AddsTwo}

\* The instants at which the clock is read: a join at 0 or at 20 has its
\* welcome deleted and its unlock run at one of them.
Instants == {0, WELCOME_DELETE_DELAY, AUTO_UNLOCK_DELAY,
             AUTO_UNLOCK_DELAY + WELCOME_DELETE_DELAY}
MaxTime == AUTO_UNLOCK_DELAY + WELCOME_DELETE_DELAY

\* A chat-client call returns (TRUE) or raises (FALSE).
Outcomes == BOOLEAN

\* What check_message computes from a text, tabulated over the samples:
\* message_text = update.message.text.lower(), then the three tests.
TextFacts ==
    [t \in Texts \cup {NoText} |->
        LET message_text == Lower(t)
        IN  [allowed |-> IsAllowedFirstMessage(message_text),
             blacklisted |-> HasBlacklistWord(message_text),
             link |-> HasLink(message_text)]]

\* ------------------------------------------------- filters and dispatch
\* filters.COMMAND: the text starts with a bot_command entity ("/name").
IsCommand(text) == Len(text) >= 2 /\ text[1] = "/" /\ text[2] \notin Whitespace

\* CommandHandler: text[1:entity.length].split('@')[0].lower()
CommandName(text) ==
    LET stop == {k \in 2..Len(text) : text[k] \in Whitespace \cup {"@"}}
        last == IF stop = {} THEN Len(text)
                ELSE (CHOOSE k \in stop : \A m \in stop : k <= m) - 1
    IN  Lower(SubSeq(text, 2, last))

\* application.add_handler(...), in the order of main(); every handler goes
\* to the default group.
Handlers == <<"start", "stats", "welcome_new_member", "track_new_members",
              "check_forward", "check_message", "spam_check">>

\* The filter each handler is registered with.
Accepts(h, upd) ==
    CASE h = "start" ->
            upd.kind = "message" /\ IsCommand(upd.text)
            /\ CommandName(upd.text) = <<"s", "t", "a", "r", "t">>
      [] h = "stats" ->
            upd.kind = "message" /\ IsCommand(upd.text)
            /\ CommandName(upd.text) = <<"s", "t", "a", "t", "s">>
      [] h \in {"welcome_new_member", "track_new_members"} ->
            upd.new_chat_members # <<>>
      [] h = "check_forward" -> upd.forwarded
      [] h \in {"check_message", "spam_check"} ->
            upd.text # NoText /\ ~IsCommand(upd.text)
      [] OTHER -> FALSE

\* Every handler of main() is in one group: the Application runs the first
\* handler of the group whose filter accepts the update, and no other.
Dispatch(upd) ==
    IF \E k \in 1..Len(Handlers) : Accepts(Handlers[k], upd)
    THEN Handlers[CHOOSE k \in 1..Len(Handlers) :
                      /\ Accepts(Handlers[k], upd)
                      /\ \A m \in 1..Len(Handlers) :
                            Accepts(Handlers[m], upd) => k <= m]
    ELSE "none"

\* Dispatch, tabulated over the updates the model draws.
Handler ==
    [upd \in MessageUpdates \cup JoinUpdates |-> Dispatch(upd)]

\* ------------------------------------------------------------------- state
VARIABLES
    restricted_users,     \* set of user ids
    user_warnings,        \* defaultdict(int): keys are its DOMAIN
    user_invites,         \* defaultdict(int): keys are its DOMAIN
    user_message_times,   \* context.bot_data['user_message_times']
    jobs,                 \* pending run_once jobs
    next_message_id,      \* id of the next welcome message the chat returns
    now,                  \* the clock
    cur,                  \* the update being handled and the handler's position
    update_queue,         \* Application.update_queue: received, not yet taken
    joins,                \* join events accepted so far
    violations,           \* per user: times line 158 ran
    mutes,                \* per user: 2-hour restrict_chat_member calls issued
    invited,              \* per user: non-bot members of the join events they sent
    unlock_notices,       \* per user: unlock notices issued (either path)
    burst                 \* per user: spam_check calls at the current instant

stores == <<restricted_users, user_warnings, user_invites, user_message_times>>
history == <<violations, mutes, invited, unlock_notices, burst>>
vars == <<restricted_users, user_warnings, user_invites, user_message_times,
          jobs, next_message_id, now, cur, update_queue, joins,
          violations, mutes, invited, unlock_notices, burst>>

\* defaultdict(int) / defaultdict(list) access
Get(d, k, default) == IF k \in DOMAIN d THEN d[k] ELSE default
Put(d, k, v) == [x \in (DOMAIN d) \cup {k} |-> IF x = k THEN v ELSE d[x]]
EmptyDict == [x \in {} |-> 0]

NoUpdate == [kind |-> "none", from_user |-> 0, text |-> NoText,
             forwarded |-> FALSE, new_chat_members |-> <<>>]

\* What the sender's entries were when the handler started.
Snapshot(u) == [restricted |-> u \in restricted_users,
                warnings |-> Get(user_warnings, u, 0),
                invites |-> Get(user_invites, u, 0)]

\* The statistics a handler has put in its reply (stats only).
NoReport == [restricted |-> 0, warned |-> 0, invites |-> 0]

Idle == [h |-> "none", pc |-> "idle", upd |-> NoUpdate, i |-> 0,
         calls |-> <<>>, registered |-> {}, report |-> NoReport, at |-> 0,
         pre |-> [restricted |-> FALSE, warnings |-> 0, invites |-> 0]]

\* No update is being processed.
Free == cur.pc = "idle"

\* The handler has returned ("done") or raised ("raised"); process_update
\* returns at once, before the event loop runs anything else.
Finished == cur.pc \in {"done", "raised"}

\* cur with the handler suspended in (or finished after) a chat-client call
At(pc, call) == [cur EXCEPT !.pc = pc, !.calls = Append(cur.calls, call)]
Ended(pc) == [cur EXCEPT !.pc = pc]

Init ==
    /\ restricted_users = {}
    /\ user_warnings = EmptyDict
    /\ user_invites = EmptyDict
    /\ user_message_times = EmptyDict
    /\ jobs = {}
    /\ next_message_id = 1
    /\ now = 0
    /\ cur = Idle
    /\ update_queue = <<>>
    /\ joins = 0
    /\ violations = [u \in Users |-> 0]
    /\ mutes = [u \in Users |-> 0]
    /\ invited = [u \in Users |-> 0]
    /\ unlock_notices = [u \in Users |-> 0]
    /\ burst = [u \in Users |-> 0]

\* A fresh handler invocation on upd.
Started(h, upd) ==
    [h |-> h, pc |-> "start", upd |-> upd, i |-> 0, calls |-> <<>>,
     registered |-> {}, report |-> NoReport, at |-> 0,
     pre |-> Snapshot(upd.from_user)]

\* ---------------------------------------------------- welcome_new_member
\* Index of the next non-bot member at or after k (0: none): the `continue`.
NextMember(members, k) ==
    LET rest == {j \in k..Len(members) : ~is_bot(members[j])}
    IN  IF rest = {} THEN 0 ELSE CHOOSE j \in rest : \A m \in rest : j <= m

\* The loop from member k on, up to the await of reply_text (line 62): the
\* member is added to restricted_users before the call is made.
WelcomeLoop(c, k) ==
    LET j == NextMember(c.upd.new_chat_members, k)
    IN  IF j = 0
        THEN /\ cur' = [c EXCEPT !.pc = "done"]
             /\ UNCHANGED restricted_users
        ELSE /\ restricted_users' =
                    restricted_users \cup {c.upd.new_chat_members[j]}
             /\ cur' = [c EXCEPT !.pc = "welcome_reply", !.i = j, !.at = now,
                                 !.calls = Append(c.calls, "reply_welcome")]

\* The two context.job_queue.run_once calls of one member; `joined` notes
\* when line 59 added the member (cur.at), for the record.
WelcomeJobs(member) ==
    { [kind |-> "delete_message", due |-> now + WELCOME_DELETE_DELAY,
       message_id |-> next_message_id, user_id |-> member, joined |-> cur.at],
      [kind |-> "auto_unlock_user", due |-> now + AUTO_UNLOCK_DELAY,
       message_id |-> next_message_id, user_id |-> member, joined |-> cur.at] }

WelcomeBegin(upd) ==
    /\ now + AUTO_UNLOCK_DELAY <= MaxTime
    /\ joins' = joins + 1
    /\ WelcomeLoop(Started("welcome_new_member", upd), 1)
    /\ UNCHANGED <<user_warnings, user_invites, user_message_times, jobs,
                   next_message_id, now, violations, mutes, unlock_notices>>

\* reply_text returned the welcome message, or raised.
WelcomeResume ==
    /\ cur.h = "welcome_new_member" /\ cur.pc = "welcome_reply"
    /\ \E ok \in Outcomes :
         IF ok
         THEN LET new == WelcomeJobs(cur.upd.new_chat_members[cur.i])
              IN  /\ jobs' = jobs \cup new
                  /\ next_message_id' = next_message_id + 1
                  /\ WelcomeLoop([cur EXCEPT !.registered = @ \cup new],
                                 cur.i + 1)
         ELSE /\ cur' = Ended("raised")
              /\ UNCHANGED <<restricted_users, jobs, next_message_id>>
    /\ UNCHANGED <<user_warnings, user_invites, user_message_times, now,
                   update_queue, joins, history>>

\* ------------------------------------------------------------ job callbacks
\* delete_message: the call is inside try/except, its outcome changes nothing.
DeleteMessageJob ==
    \E j \in jobs :
        /\ ~Finished
        /\ j.kind = "delete_message"
        /\ now >= j.due
        /\ jobs' = jobs \ {j}
        /\ UNCHANGED <<stores, next_message_id, now, cur, update_queue,
                       joins, history>>

\* A variant of the timer's guard that always passes.
StillRestrictedAlways(user_id) == TRUE

\* if user_id in restricted_users
StillRestricted(user_id) == user_id \in restricted_users

\* auto_unlock_user: remove and notify only if still restricted; the send is
\* inside try/except.
AutoUnlockJob ==
    \E j \in jobs :
        /\ ~Finished
        /\ j.kind = "auto_unlock_user"
        /\ now >= j.due
        /\ jobs' = jobs \ {j}
        /\ IF StillRestricted(j.user_id)
           THEN /\ restricted_users' = restricted_users \ {j.user_id}
                /\ unlock_notices' =
                       [unlock_notices EXCEPT ![j.user_id] = @ + 1]
           ELSE UNCHANGED <<restricted_users, unlock_notices>>
        /\ UNCHANGED <<user_warnings, user_invites, user_message_times,
                       next_message_id, now, cur, update_queue, joins,
                       violations, mutes, invited, burst>>

\* ------------------------------------------------------- track_new_members
\* len([m for m in update.message.new_chat_members if not m.is_bot])
new_members_count(members) ==
    Cardinality({j \in 1..Len(members) : ~is_bot(members[j])})

\* A variant that unlocks a restricted inviter at any count.
ShouldUnlockAnyCount(total, inviter_id) == inviter_id \in restricted_users

\* user_invites[inviter_id] >= 5 and inviter_id in restricted_users
ShouldUnlock(total, inviter_id) ==
    total >= INVITE_THRESHOLD /\ inviter_id \in restricted_users

TrackBegin(upd) ==
    LET inviter_id == upd.from_user
        total == Get(user_invites, inviter_id, 0)
                     + new_members_count(upd.new_chat_members)
        c == Started("track_new_members", upd)
    IN  /\ total <= MaxInvites
        /\ user_invites' = Put(user_invites, inviter_id, total)
        /\ IF ShouldUnlock(total, inviter_id)
           THEN /\ restricted_users' = restricted_users \ {inviter_id}
                /\ unlock_notices' =
                       [unlock_notices EXCEPT ![inviter_id] = @ + 1]
                /\ cur' = [c EXCEPT !.pc = "track_reply",
                                    !.calls = <<"reply_unlocked">>]
           ELSE /\ cur' = [c EXCEPT !.pc = "done"]
                /\ UNCHANGED <<restricted_users, unlock_notices>>
        /\ UNCHANGED <<user_warnings, user_message_times, jobs,
                       next_message_id, now, joins, violations, mutes>>

TrackResume ==
    /\ cur.h = "track_new_members" /\ cur.pc = "track_reply"
    /\ \E ok \in Outcomes : cur' = Ended(IF ok THEN "done" ELSE "raised")
    /\ UNCHANGED <<stores, jobs, next_message_id, now, update_queue, joins,
                   history>>

\* ------------------------------------------------------------ check_message
\* Which rule of check_message the text reaches first.
FirstRule(upd) ==
    IF upd.text = NoText THEN "return"
    ELSE LET facts == TextFacts[upd.text]
         IN  IF upd.from_user \in restricted_users /\ ~facts.allowed
             THEN "gate"
             ELSE IF facts.blacklisted THEN "blacklist"
             ELSE IF facts.link THEN "link"
             ELSE "return"

CheckMessageBegin(upd) ==
    LET rule == FirstRule(upd)
        c == Started("check_message", upd)
    IN  /\ rule = "blacklist" => violations[upd.from_user] < MaxViolations
        /\ cur' = CASE rule = "gate" ->
                        [c EXCEPT !.pc = "gate_delete", !.calls = <<"delete">>]
                    [] rule = "blacklist" ->
                        [c EXCEPT !.pc = "blacklist_delete", !.calls = <<"delete">>]
                    [] rule = "link" ->
                        [c EXCEPT !.pc = "link_delete", !.calls = <<"delete">>]
                    [] OTHER -> [c EXCEPT !.pc = "done"]
        /\ UNCHANGED <<stores, jobs, next_message_id, now, joins,
                       violations, mutes, unlock_notices>>

\* user_warnings[user_id] >= 3
ReachedThreshold(count) == count >= MUTE_THRESHOLD

\* user_warnings[user_id] = 0  # Reset warnings
Reset(d, user_id) == Put(d, user_id, 0)

\* The awaited call returned or raised; run to the next await or the return.
CheckMessageResume ==
    /\ cur.h = "check_message"
    /\ cur.pc \in {"gate_delete", "gate_reply", "blacklist_delete",
                   "blacklist_restrict", "blacklist_muted", "blacklist_warn",
                   "link_delete", "link_reply"}
    /\ LET user_id == cur.upd.from_user
           count == Get(user_warnings, user_id, 0) + 1
       IN \E ok \in Outcomes :
          IF ~ok
          THEN /\ cur' = Ended("raised")
               /\ UNCHANGED <<user_warnings, violations, mutes>>
          ELSE CASE cur.pc = "gate_delete" ->
                      /\ cur' = At("gate_reply", "reply_restricted")
                      /\ UNCHANGED <<user_warnings, violations, mutes>>
                 [] cur.pc = "blacklist_delete" ->
                      /\ user_warnings' = Put(user_warnings, user_id, count)
                      /\ violations' = [violations EXCEPT ![user_id] = @ + 1]
                      /\ IF ReachedThreshold(count)
                         THEN /\ cur' = At("blacklist_restrict", "restrict_2h")
                              /\ mutes' = [mutes EXCEPT ![user_id] = @ + 1]
                         ELSE /\ cur' = At("blacklist_warn", "send_warning")
                              /\ UNCHANGED mutes
                 [] cur.pc = "blacklist_restrict" ->
                      /\ cur' = At("blacklist_muted", "send_muted")
                      /\ UNCHANGED <<user_warnings, violations, mutes>>
                 [] cur.pc = "blacklist_muted" ->
                      /\ user_warnings' = Reset(user_warnings, user_id)
                      /\ cur' = Ended("done")
                      /\ UNCHANGED <<violations, mutes>>
                 [] cur.pc = "link_delete" ->
                      /\ cur' = At("link_reply", "reply_links")
                      /\ UNCHANGED <<user_warnings, violations, mutes>>
                 [] OTHER ->
                      /\ cur' = Ended("done")
                      /\ UNCHANGED <<user_warnings, violations, mutes>>
    /\ UNCHANGED <<restricted_users, user_invites, user_message_times, jobs,
                   next_message_id, now, update_queue, joins, invited,
                   unlock_notices, burst>>

\* ------------------------------------------------------------ check_forward
\* update.message.forward_date or update.message.forward_from
HasForwardMetadata(upd) == upd.forwarded

CheckForwardBegin(upd) ==
    LET c == Started("check_forward", upd)
    IN  /\ cur' = IF HasForwardMetadata(upd)
                  THEN [c EXCEPT !.pc = "forward_delete", !.calls = <<"delete">>]
                  ELSE [c EXCEPT !.pc = "done"]
        /\ UNCHANGED <<stores, jobs, next_message_id, now, joins,
                       violations, mutes, unlock_notices>>

CheckForwardResume ==
    /\ cur.h = "check_forward"
    /\ cur.pc \in {"forward_delete", "forward_reply"}
    /\ \E ok \in Outcomes :
         cur' = IF ~ok THEN Ended("raised")
                ELSE IF cur.pc = "forward_delete"
                     THEN At("forward_reply", "reply_forwards")
                     ELSE Ended("done")
    /\ UNCHANGED <<stores, jobs, next_message_id, now, update_queue, joins,
                   history>>

\* --------------------------------------------------------------- spam_check
\* hasattr(context.bot_data, 'user_message_times'): bot_data is a dict, and a
\* dict key is not an attribute.
HasUserMessageTimes == FALSE

\* (current_time - t).seconds < 10
InWindow(current_time, t) ==
    ((current_time - t) % SECONDS_PER_DAY) < SPAM_WINDOW

\* A variant that does not append the current time.
RecordMessageTimeWithoutAppend(user_id, current_time) ==
    LET table == IF HasUserMessageTimes THEN user_message_times ELSE EmptyDict
        Recent(t) == InWindow(current_time, t)
    IN  Put(table, user_id, SelectSeq(Get(table, user_id, <<>>), Recent))

\* Lines 214-224: the per-user list after the append and the filter.
RecordMessageTime(user_id, current_time) ==
    LET table == IF HasUserMessageTimes THEN user_message_times ELSE EmptyDict
        appended == Append(Get(table, user_id, <<>>), current_time)
        Recent(t) == InWindow(current_time, t)
    IN  Put(table, user_id, SelectSeq(appended, Recent))

SpamCheckBegin(upd) ==
    LET user_id == upd.from_user
        table == RecordMessageTime(user_id, now)
        c == Started("spam_check", upd)
    IN  /\ user_message_times' = table
        /\ cur' = IF Len(table[user_id]) > SPAM_LIMIT
                  THEN [c EXCEPT !.pc = "spam_delete", !.calls = <<"delete">>]
                  ELSE [c EXCEPT !.pc = "done"]
        /\ UNCHANGED <<restricted_users, user_warnings, user_invites, jobs,
                       next_message_id, now, joins,
                       violations, mutes, unlock_notices>>

SpamCheckResume ==
    /\ cur.h = "spam_check"
    /\ cur.pc \in {"spam_delete", "spam_restrict", "spam_reply"}
    /\ \E ok \in Outcomes :
         cur' = IF ~ok THEN Ended("raised")
                ELSE CASE cur.pc = "spam_delete" ->
                            At("spam_restrict", "restrict_5m")
                       [] cur.pc = "spam_restrict" ->
                            At("spam_reply", "reply_spam")
                       [] OTHER -> Ended("done")
    /\ UNCHANGED <<stores, jobs, next_message_id, now, update_queue, joins,
                   history>>

\* ------------------------------------------------------------ start, stats
\* len(restricted_users), len(user_warnings), sum(user_invites.values())
RECURSIVE SumValues(_, _)
SumValues(d, keys) ==
    IF keys = {} THEN 0
    ELSE LET k == CHOOSE x \in keys : TRUE
         IN  d[k] + SumValues(d, keys \ {k})

StatsText ==
    [restricted |-> Cardinality(restricted_users),
     warned |-> Cardinality(DOMAIN user_warnings),
     invites |-> SumValues(user_invites, DOMAIN user_invites)]

CommandBegin(h, upd) ==
    /\ cur' = [Started(h, upd) EXCEPT
                  !.pc = "command_reply",
                  !.report = IF h = "stats" THEN StatsText ELSE NoReport,
                  !.calls = << IF h = "stats" THEN "reply_stats"
                               ELSE "reply_start" >>]
    /\ UNCHANGED <<stores, jobs, next_message_id, now, joins,
                   violations, mutes, unlock_notices>>

CommandResume ==
    /\ cur.h \in {"start", "stats"} /\ cur.pc = "command_reply"
    /\ \E ok \in Outcomes : cur' = Ended(IF ok THEN "done" ELSE "raised")
    /\ UNCHANGED <<stores, jobs, next_message_id, now, update_queue, joins,
                   history>>

\* ------------------------------------------------------------------ updates
\* The handler callback, from its first line to its first await or return.
Begin(h, upd) ==
    CASE h = "welcome_new_member" -> WelcomeBegin(upd)
      [] h = "track_new_members" -> TrackBegin(upd)
      [] h = "check_forward" -> CheckForwardBegin(upd)
      [] h = "check_message" -> CheckMessageBegin(upd)
      [] h = "spam_check" -> SpamCheckBegin(upd)
      [] h \in {"start", "stats"} -> CommandBegin(h, upd)
      [] OTHER ->   \* no handler accepts the update
            /\ cur' = [Started("none", upd) EXCEPT !.pc = "done"]
            /\ UNCHANGED <<stores, jobs, next_message_id, now, joins,
                           violations, mutes, unlock_notices>>

\* The non-bot members a join event adds to its sender's account.
Invited(upd) ==
    [invited EXCEPT ![upd.from_user] = @ + new_members_count(upd.new_chat_members)]

\* Application.process_update: updates are processed one after the other
\* (concurrent_updates is off), each by the handler main() dispatches it to.
ProcessUpdate ==
    /\ Free
    /\ \E upd \in MessageUpdates \cup FewJoinUpdates :
         /\ upd.kind = "join" => joins < MaxJoins
         /\ invited' = Invited(upd)
         /\ Begin(Handler[upd], upd)
    /\ UNCHANGED <<burst, update_queue>>

\* process_update in a chat where members only join.
ProcessJoin ==
    /\ Free
    /\ joins < MaxQuietJoins
    /\ \E upd \in JoinUpdates :
         /\ invited' = Invited(upd)
         /\ Begin(Handler[upd], upd)
    /\ UNCHANGED <<burst, update_queue>>

\* welcome_new_member or track_new_members called on a join update.
CallJoinHandler ==
    /\ Free
    /\ \E upd \in JoinUpdates :
         \E h \in {"welcome_new_member", "track_new_members"} :
            /\ Accepts(h, upd)
            /\ h = "welcome_new_member" =>
                  joins < MaxJoins /\ upd \in FewJoinUpdates
            /\ invited' = IF h = "track_new_members"
                          THEN Invited(upd) ELSE invited
            /\ Begin(h, upd)
    /\ UNCHANGED <<burst, update_queue>>

\* spam_check called on a message update its filter accepts.
CallSpamCheck ==
    /\ Free
    /\ \E upd \in MessageUpdates :
         /\ Accepts("spam_check", upd)
         /\ burst[upd.from_user] < MaxBurst
         /\ burst' = [burst EXCEPT ![upd.from_user] = @ + 1]
         /\ Begin("spam_check", upd)
    /\ UNCHANGED <<invited, update_queue>>

\* process_update returns to the Application, which takes the next update.
Return ==
    /\ Finished
    /\ cur' = Idle
    /\ UNCHANGED <<stores, jobs, next_message_id, now, update_queue, joins,
                   history>>

\* Time passes to a later instant (a sampled one or the due time of a job),
\* once the jobs that are due have run.
Tick ==
    /\ ~Finished
    /\ \A j \in jobs : j.due > now
    /\ \E t \in Instants \cup {j.due : j \in jobs} : t > now /\ now' = t
    /\ burst' = [u \in Users |-> 0]
    /\ UNCHANGED <<stores, jobs, next_message_id, cur, update_queue, joins,
                   violations, mutes, invited, unlock_notices>>

Next ==
    \/ Return
    \/ ProcessUpdate
    \/ WelcomeResume
    \/ CheckMessageResume
    \/ CheckForwardResume
    \/ CommandResume
    \/ DeleteMessageJob
    \/ AutoUnlockJob
    \/ Tick

NextJoins ==
    \/ Return
    \/ ProcessJoin
    \/ WelcomeResume
    \/ DeleteMessageJob
    \/ AutoUnlockJob
    \/ Tick

NextHandlers ==
    \/ Return
    \/ CallJoinHandler
    \/ WelcomeResume
    \/ TrackResume
    \/ DeleteMessageJob
    \/ AutoUnlockJob
    \/ Tick

NextSpam ==
    \/ Return
    \/ CallSpamCheck
    \/ Tick

Spec == Init /\ [][Next]_vars

SpecJoins == Init /\ [][NextJoins]_vars

\* The event loop resumes a coroutine whose awaited call has completed, runs
\* a job that is due, and time passes.
FairSpecJoins ==
    /\ SpecJoins
    /\ WF_vars(WelcomeResume)
    /\ WF_vars(Return)
    /\ WF_vars(DeleteMessageJob)
    /\ WF_vars(AutoUnlockJob)
    /\ WF_vars(Tick)

SpecHandlers == Init /\ [][NextHandlers]_vars

SpecSpam == Init /\ [][NextSpam]_vars

\* ------------------------------------------------------ queued text messages
\* Blacklist-violating text messages, as the poller of run_polling puts them
\* on Application.update_queue, several of them in one batch.
QueuedUpdates ==
    [kind : {"message"}, from_user : Senders, text : {T_SeXy, T_xxxLink},
     forwarded : {FALSE}, new_chat_members : {<<>>}]

\* A variant in which the Application is built with concurrent_updates(True).
ConcurrentUpdatesOn == TRUE

\* Application.builder().token(BOT_TOKEN).build(): concurrent_updates is not
\* set, so process_update is awaited for one update before the next is taken.
concurrent_updates == FALSE

\* The poller receives a message while the Application is idle or busy.
ReceiveUpdate ==
    /\ Len(update_queue) < MaxQueued
    /\ \E upd \in QueuedUpdates : update_queue' = Append(update_queue, upd)
    /\ UNCHANGED <<stores, jobs, next_message_id, now, cur, joins, history>>

\* The Application takes the oldest queued update and dispatches it.
TakeUpdate ==
    /\ Free \/ concurrent_updates
    /\ update_queue # <<>>
    /\ LET upd == Head(update_queue)
       IN  /\ update_queue' = Tail(update_queue)
           /\ invited' = Invited(upd)
           /\ Begin(Handler[upd], upd)
    /\ UNCHANGED burst

NextQueue ==
    \/ ReceiveUpdate
    \/ TakeUpdate
    \/ CheckMessageResume
    \/ Return

SpecQueue == Init /\ [][NextQueue]_vars

\* ------------------------------------------------- every handler and job
\* Text messages, forwards and commands of one user, dispatched as main()
\* does, next to the two join handlers called directly.
FrameUpdates ==
    [kind : {"message"}, from_user : {1}, text : {T_hiAll, T_SeXy, T_cmdStats},
     forwarded : {FALSE}, new_chat_members : {<<>>}]
    \cup [kind : {"message"}, from_user : {1}, text : {T_hiAll},
          forwarded : {TRUE}, new_chat_members : {<<>>}]

ProcessMessage ==
    /\ Free
    /\ \E upd \in FrameUpdates : Begin(Handler[upd], upd)
    /\ UNCHANGED <<invited, burst, update_queue>>

NextFrame ==
    \/ Return
    \/ ProcessMessage
    \/ CallJoinHandler
    \/ WelcomeResume
    \/ TrackResume
    \/ CheckMessageResume
    \/ CheckForwardResume
    \/ CommandResume
    \/ DeleteMessageJob
    \/ AutoUnlockJob
    \/ Tick

SpecFrame == Init /\ [][NextFrame]_vars

\* =================================================================== claims
\* The chat-client calls the handler in cur has made, in order.
Called(call) == InList(call, cur.calls)
Count(call) == Cardinality({k \in 1..Len(cur.calls) : cur.calls[k] = call})
Sender == cur.upd.from_user
IsTextMessage == cur.upd.kind = "message" /\ cur.upd.text # NoText

\* What the sample texts are, read by eye (not computed by the model).
GreetingSamples == {T_HiPadded}
CommandSamples == {T_cmdStats}
LinkOnlySamples == {T_link}
BlacklistSamples == {T_SeXy, T_xxxLink}
BlacklistAndLinkSamples == {T_xxxLink}

\* C1: between events every user's warning count is within 0..2 (a violation
\* that brings it to 3 ends with the 2-hour mute issued and the count back at
\* 0) and the 2-hour mutes issued to a user number floor(violations / 3).
C1_MuteEveryThirdViolation ==
    (Free \/ Finished) =>
        \A u \in Users :
            /\ Get(user_warnings, u, 0) \in 0..2
            /\ mutes[u] = violations[u] \div 3

C3_JoinSchedulesTwoActions ==
    /\ restricted_users \cap Bots = {}
    /\ \A j \in jobs : j.user_id \notin Bots
    /\ (Finished /\ cur.h = "welcome_new_member") =>
          LET members == cur.upd.new_chat_members
              joined == {members[k] : k \in {x \in 1..Len(members) :
                                               members[x] \notin Bots}}
          IN  /\ Count("reply_welcome") = Cardinality(joined)
              /\ Cardinality(cur.registered) = 2 * Cardinality(joined)
              /\ \A m \in joined :
                    \E d, a \in cur.registered :
                        /\ d.kind = "delete_message"
                        /\ a.kind = "auto_unlock_user" /\ a.user_id = m
                        /\ d.message_id = a.message_id
                        /\ a.due - d.due = 3600 - 20

\* C4: under fair scheduling a restricted user is eventually unrestricted.
C4_EventuallyUnlocked ==
    \A u \in Humans : (u \in restricted_users) ~> (u \notin restricted_users)

\* C5: when the join events a restricted user has sent reach 5 non-bot
\* members, the handling of the event that reaches 5 leaves the user
\* unrestricted and makes exactly one unlock notice.
C5_FifthInviteUnlocksOnce ==
    (/\ Finished /\ cur.upd.kind = "join" /\ cur.pre.restricted
     /\ invited[Sender] >= 5
     /\ invited[Sender] - new_members_count(cur.upd.new_chat_members) < 5) =>
        Sender \notin restricted_users /\ Count("reply_unlocked") = 1

\* C6: after any sequence of join events each user's invite count is the
\* number of non-bot members in the join events that user sent.
C6_InviteCountIsMembersAdded ==
    Free => \A u \in Users : Get(user_invites, u, 0) = invited[u]

\* C7: a step makes an unlock notice for a user exactly when it removes that
\* user's restriction: of the invite unlock and the AutoUnlock timer, the one
\* that finds the user restricted removes and notifies, the other does
\* neither.
C7_OneUnlockPerRestriction ==
    [][\A u \in Users :
          unlock_notices'[u] = unlock_notices[u] +
              (IF u \in restricted_users /\ u \notin restricted_users'
               THEN 1 ELSE 0)]_vars

\* C7 witness: user 1 was welcomed, has 5 invites counted and one unlock
\* notice, and the AutoUnlock job of the welcome has run: both paths acted.
C7_BothPathsActed ==
    /\ next_message_id > 1
    /\ Get(user_invites, 1, 0) >= 5
    /\ unlock_notices[1] = 1 /\ 1 \notin restricted_users
    /\ ~\E j \in jobs : j.kind = "auto_unlock_user" /\ j.user_id = 1

\* C8: of the messages a user sends at one instant, the sixth and no earlier
\* one is answered by the spam rule (delete, 5-minute mute); a user's first
\* message at an instant (the previous one at least 20 s old) never is.
C8_SixInWindowMutesOnce ==
    (Finished /\ cur.h = "spam_check") =>
        (Called("restrict_5m") <=> burst[Sender] = 6)

\* C9: a text message with a link and no blacklisted word from an
\* unrestricted user is deleted and answered with the links notice, and the
\* sender's warning count, invite count and restricted flag stay as they were.
C9_LinkDeletedWithNotice ==
    (Finished /\ IsTextMessage /\ cur.upd.text \in LinkOnlySamples
              /\ ~cur.pre.restricted) =>
        /\ cur.calls = <<"delete", "reply_links">>
        /\ Snapshot(Sender) = cur.pre

\* C10: every message that carries forward metadata is deleted and answered
\* with the forwards notice, whatever its sender's state and its text.
C10_ForwardDeletedWithNotice ==
    (Finished /\ cur.upd.kind = "message" /\ cur.upd.forwarded) =>
        /\ Called("delete")
        /\ Called("reply_forwards")

\* C11: a failing chat-client call is swallowed: no handler ends by raising,
\* and the state updates of the event are applied all the same (a blacklist
\* violation is counted, the count that reached 3 is reset to 0, every
\* restricted member of a join event has its AutoUnlock registered).
C11_FailuresSwallowed ==
    /\ cur.pc # "raised"
    /\ (Finished /\ cur.h = "check_message" /\ ~cur.pre.restricted
                 /\ cur.upd.text \in BlacklistSamples) =>
          Get(user_warnings, Sender, 0) =
              (IF cur.pre.warnings + 1 >= 3 THEN 0 ELSE cur.pre.warnings + 1)
    /\ (Finished /\ cur.h = "welcome_new_member") =>
          \A k \in 1..Len(cur.upd.new_chat_members) :
              LET m == cur.upd.new_chat_members[k]
              IN  m \notin Bots =>
                     \E a \in cur.registered :
                         a.kind = "auto_unlock_user" /\ a.user_id = m

\* C12: the status command reports the number of restricted users, the
\* number of users whose warning count is greater than 0 and the sum of all
\* invite counts, as they are when it runs, and changes none of the stores.
C12_StatsReportsCurrentState ==
    [][(cur.pc = "idle" /\ cur'.h = "stats") =>
          /\ cur'.report.restricted = Cardinality(restricted_users)
          /\ cur'.report.warned =
                 Cardinality({u \in Users : Get(user_warnings, u, 0) > 0})
          /\ cur'.report.invites =
                 Get(user_invites, 1, 0) + Get(user_invites, 2, 0)
                     + Get(user_invites, 3, 0) + Get(user_invites, 4, 0)
          /\ stores' = stores]_vars

\* C13: blacklist-violating messages that are in flight together are handled
\* one at a time: while check_message is suspended in a chat-client call no
\* other update is taken from the queue, every change of a count is either
\* one counted increment or the reset by the handler that issued the mute,
\* and a mute is issued only by the increment that brings the count to 3 or
\* more.  The final count and the mutes are those of the messages processed
\* serially in their queue order.
C13_MessagesHandledOneAtATime ==
    [][/\ (cur.h = "check_message" /\ ~Free /\ ~Finished) =>
              /\ cur'.upd = cur.upd
              /\ Len(update_queue') >= Len(update_queue)
       /\ \A u \in Users :
              LET w == Get(user_warnings, u, 0)
                  w2 == Get(user_warnings', u, 0)
              IN  /\ w2 # w =>
                        \/ w2 = w + 1 /\ violations'[u] = violations[u] + 1
                        \/ w2 = 0 /\ cur.pc = "blacklist_muted" /\ Sender = u
                  /\ violations'[u] # violations[u] => w2 = w + 1
                  /\ mutes'[u] # mutes[u] =>
                        mutes'[u] = mutes[u] + 1 /\ w2 = w + 1 /\ w2 >= 3]_vars

\* C13 witness: a handler is suspended in restrict_chat_member, the count at
\* 3 and not yet reset, while another violating message of the same user
\* waits on the queue.
C13_SecondViolationInFlight ==
    /\ cur.h = "check_message" /\ cur.pc = "blacklist_restrict"
    /\ Get(user_warnings, Sender, 0) = 3
    /\ \E k \in 1..Len(update_queue) : update_queue[k].from_user = Sender

\* C14: the text rules fire in the order gate, blacklist, link and at most
\* one of them per message: a restricted user's non-greeting with a
\* blacklisted word is deleted by the gate and its warning count stays; a
\* message with a blacklisted word and a link is counted and answered with
\* the warning or the mute, never with the links notice.
C14_RulesInPriorityOrder ==
    (Finished /\ IsTextMessage) =>
        /\ Cardinality({c \in {"reply_restricted", "send_warning",
                               "restrict_2h", "reply_links"} : Called(c)}) <= 1
        /\ (cur.pre.restricted /\ cur.upd.text \in BlacklistSamples) =>
              /\ Called("delete")
              /\ Get(user_warnings, Sender, 0) = cur.pre.warnings
              /\ ~Called("send_warning") /\ ~Called("restrict_2h")
        /\ (~cur.pre.restricted /\ cur.upd.text \in BlacklistAndLinkSamples) =>
              /\ Get(user_warnings, Sender, 0) =
                     (IF cur.pre.warnings + 1 >= 3 THEN 0
                      ELSE cur.pre.warnings + 1)
              /\ Called("send_warning") \/ Called("restrict_2h")
              /\ ~Called("reply_links")

\* C15: a forwarded text message of a restricted user that is not a greeting
\* is handled by the restriction gate and by the forward check, which makes
\* two delete attempts on it.
C15_ForwardHandledByBothRules ==
    (Finished /\ IsTextMessage /\ cur.upd.forwarded /\ cur.pre.restricted
              /\ cur.upd.text \notin GreetingSamples \cup CommandSamples) =>
        Count("delete") = 2

\* C16: after spam_check has recorded a message time, the sender's retained
\* times include the current time and each of them is less than 10 s old;
\* for a user's first message at an instant (the one before at least 20 s
\* old) exactly one time is retained.
C16_RetainedTimesInWindow ==
    (Finished /\ cur.h = "spam_check") =>
        LET times == Get(user_message_times, Sender, <<>>)
        IN  /\ \E k \in 1..Len(times) : times[k] = now
            /\ \A k \in 1..Len(times) :
                  times[k] <= now /\ now - times[k] < 10
            /\ burst[Sender] = 1 => Len(times) = 1

\* C16 witness: spam_check has handled a user's first message at a later
\* instant than the start, and one time is retained.
C16_SpacedCallRecorded ==
    /\ Finished /\ cur.h = "spam_check"
    /\ now >= 20 /\ burst[Sender] = 1
    /\ Get(user_message_times, Sender, <<>>) = <<now>>

\* C17: a step makes a user restricted only as welcome_new_member reaches
\* that user, a non-bot member of the join event; a step ends a restriction
\* only as the AutoUnlock job of that user runs or as track_new_members
\* brings that user's invite count to 5 or more.  No other step (text
\* message, forward, command, DeleteMessage job) changes restricted_users.
C17_RestrictedChangesOnlyByJoinAndUnlock ==
    [][\A u \in Users :
          /\ (u \notin restricted_users /\ u \in restricted_users') =>
                /\ cur'.h = "welcome_new_member"
                /\ cur'.upd.new_chat_members[cur'.i] = u
                /\ u \notin Bots
          /\ (u \in restricted_users /\ u \notin restricted_users') =>
                \/ \E j \in jobs \ jobs' :
                       j.kind = "auto_unlock_user" /\ j.user_id = u
                \/ /\ cur.pc = "idle" /\ cur'.h = "track_new_members"
                   /\ cur'.upd.from_user = u
                   /\ Get(user_invites', u, 0) >= 5]_vars

\* C17 witness: a user who was restricted by a join and has sent a
\* blacklisted text has just been unlocked by reaching 5 invites.
C17_UnlockedByInvitesAfterMessages ==
    /\ cur.h = "track_new_members" /\ cur.pc = "track_reply"
    /\ cur.pre.restricted /\ Sender \notin restricted_users
    /\ violations[Sender] >= 1

\* C18: the timeout path never ends a restriction before 3600 s have passed
\* since the join that created it: where only joins and timers act, a user
\* whose latest join is less than 3600 s old (its AutoUnlock job pending) is
\* still restricted, also when an earlier join of that user registered an
\* earlier job.
C18_NoTimeoutUnlockBeforeAnHour ==
    \A j \in jobs :
        (j.kind = "auto_unlock_user" /\ now < j.joined + 3600) =>
            j.user_id \in restricted_users

\* C19: once welcome_new_member has handled a join event, no member that
\* somebody else added is both restricted and credited with 5 or more
\* invites (track_new_members on the same event credits the sender only).
C19_NoRestrictedUserWithFiveInvites ==
    (Finished /\ cur.h = "welcome_new_member") =>
        \A k \in 1..Len(cur.upd.new_chat_members) :
            LET m == cur.upd.new_chat_members[k]
            IN  m # Sender =>
                   ~(m \in restricted_users /\ Get(user_invites, m, 0) >= 5)

=============================================================================
